---- MODULE Spec2Model ----
(***************************************************************************)
(* Blue-green (production / release-candidate) traffic splitting done by   *)
(* the edge middleware: middleware.ts calls handleDeployment               *)
(* (lib/services/deployment), which classifies the request, reads the      *)
(* sticky cookie, rolls the dice and either returns the middleware's own   *)
(* response or proxies the request to the RC deployment.                   *)
(*                                                                         *)
(* Strings that the code only compares for equality are TLA+ strings.      *)
(* Strings the code searches or parses (user agent, Accept, deployment     *)
(* identifiers, header values tested for truthiness) are sequences of      *)
(* one-character strings, so that a regular expression or includes() is    *)
(* computed and <<>> is the empty string.  A value that may be missing     *)
(* (Headers.get -> null, cookies.get -> undefined) is a sequence of        *)
(* length 0 (missing) or 1 (the value).                                    *)
(*                                                                         *)
(* Specifications:                                                         *)
(*   Spec            one client request at a time through the pipeline     *)
(*   ConcurrentSpec  two requests of one client in flight at once          *)
(*   SelectSpec      selectBlueGreenDeployment on its own                  *)
(*   FormatSpec      formatDeploymentUrl on its own                        *)
(*   RouteSpec       the /api/a and /api/b route handlers                  *)
(***************************************************************************)
EXTENDS Integers, Sequences, FiniteSets, TLC

VARIABLES
    frames,     \* call chain of one client request: frames[1] is the invocation
                \* on the deployment the client reached, frames[k+1] the invocation
                \* on the deployment that frames[k] proxied to
    jar,        \* the client's stored release_candidate cookie (0 or 1 element)
    fetches,    \* upstream proxy fetches issued for the current client request
    draws,      \* Math.random() draws made for the current client request
    sel,        \* selectBlueGreenDeployment applied to a drawn (weight, draw) pair
    inflight,   \* per tab of one client: the invocation serving the request
                \* the tab has in flight (0 or 1 element)
    fmt,        \* formatDeploymentUrl applied to an identifier, and again to
                \* its result
    calls       \* call chain of the /api/a and /api/b route handlers for one
                \* request: calls[k+1] serves the fetch that calls[k] awaits

vars == <<frames, jar, fetches, draws, sel, inflight, fmt, calls>>

(***************************************************************************)
(* Bounds of the model.                                                    *)
(***************************************************************************)
\* longest chain of deployments one client request may traverse in the model
MaxDepth == 3
\* a draw is Math.random() * 100 in units of 1 / DrawScale
DrawScale == 2

(***************************************************************************)
(* Character strings.                                                      *)
(***************************************************************************)
Upper == <<"A","B","C","D","E","F","G","H","I","J","K","L","M",
           "N","O","P","Q","R","S","T","U","V","W","X","Y","Z">>
Lower == <<"a","b","c","d","e","f","g","h","i","j","k","l","m",
           "n","o","p","q","r","s","t","u","v","w","x","y","z">>

\* one character lower-cased (the i flag of a regular expression)
LowerChar(c) ==
    IF \E i \in 1..Len(Upper) : Upper[i] = c
    THEN Lower[CHOOSE i \in 1..Len(Upper) : Upper[i] = c]
    ELSE c

LowerCase(s) == [i \in 1..Len(s) |-> LowerChar(s[i])]

\* String.prototype.includes: pat occurs in s as a contiguous substring
Includes(s, pat) ==
    \E i \in 0..(Len(s) - Len(pat)) : SubSeq(s, i + 1, i + Len(pat)) = pat

\* JavaScript truthiness of the result of Headers.get / cookies.get:
\* null, undefined and the empty string are falsy
Truthy(opt) == opt # <<>> /\ opt[1] # <<>>


\* first index i >= from with s[i] \in cs, or Len(s) + 1 when there is none
FirstIn(s, cs, from) ==
    IF \E i \in from..Len(s) : s[i] \in cs
    THEN CHOOSE i \in from..Len(s) :
            s[i] \in cs /\ \A j \in from..(i - 1) : s[j] \notin cs
    ELSE Len(s) + 1

\* first index i >= from with s[i] \notin cs, or Len(s) + 1 when there is none
FirstNotIn(s, cs, from) ==
    IF \E i \in from..Len(s) : s[i] \notin cs
    THEN CHOOSE i \in from..Len(s) :
            s[i] \notin cs /\ \A j \in from..(i - 1) : s[j] \in cs
    ELSE Len(s) + 1

Digits == {"0","1","2","3","4","5","6","7","8","9"}
Letters == {Lower[i] : i \in 1..Len(Lower)} \cup {Upper[i] : i \in 1..Len(Upper)}
SchemeChars == Letters \cup Digits \cup {"+", "-", "."}
\* code points a host of a special (http, https) URL may not contain
ForbiddenHostChars == {" ", "#", "/", ":", "<", ">", "?", "@", "[", "\\", "]", "^", "|", "%"}

http == <<"h","t","t","p">>
https == <<"h","t","t","p","s">>
textHtml == <<"t","e","x","t","/","h","t","m","l">>
vercel == <<"v","e","r","c","e","l">>

(***************************************************************************)
(* new URL(s).hostname for an absolute URL string, as the WHATWG URL       *)
(* parser computes it: [threw |-> TRUE] is the TypeError "Invalid URL".    *)
(***************************************************************************)
Threw == [threw |-> TRUE, value |-> <<>>]
Value(v) == [threw |-> FALSE, value |-> v]

\* host of an authority "userinfo@host:port"
AuthorityHost(auth) ==
    LET ats  == {i \in 1..Len(auth) : auth[i] = "@"}
        from == IF ats = {} THEN 1 ELSE (CHOOSE i \in ats : \A j \in ats : j <= i) + 1
        col  == FirstIn(auth, {":"}, from)
    IN  [host |-> SubSeq(auth, from, col - 1),
         port |-> SubSeq(auth, col + 1, Len(auth))]

URLHostname(s) ==
    LET c == FirstIn(s, {":"}, 1)
    IN  IF c > Len(s) \/ c = 1 THEN Threw
        ELSE IF s[1] \notin Letters \/ \E i \in 1..(c - 1) : s[i] \notin SchemeChars
             THEN Threw
        ELSE LET scheme == LowerCase(SubSeq(s, 1, c - 1))
             IN  IF scheme \in {http, https}
                 THEN LET a    == FirstNotIn(s, {"/", "\\"}, c + 1)
                          e    == FirstIn(s, {"/", "\\", "?", "#"}, a)
                          auth == AuthorityHost(SubSeq(s, a, e - 1))
                      IN  IF auth.host = <<>> THEN Threw
                          ELSE IF \E i \in 1..Len(auth.host) :
                                     auth.host[i] \in ForbiddenHostChars
                               THEN Threw
                          ELSE IF \E i \in 1..Len(auth.port) :
                                     auth.port[i] \notin Digits
                               THEN Threw
                          ELSE Value(LowerCase(auth.host))
                 ELSE IF c + 2 <= Len(s) /\ SubSeq(s, c + 1, c + 2) = <<"/", "/">>
                      THEN LET e    == FirstIn(s, {"/", "?", "#"}, c + 3)
                               auth == AuthorityHost(SubSeq(s, c + 3, e - 1))
                           IN  IF \E i \in 1..Len(auth.host) :
                                     auth.host[i] \in ForbiddenHostChars \ {"%"}
                               THEN Threw
                               ELSE IF \E i \in 1..Len(auth.port) :
                                          auth.port[i] \notin Digits
                                    THEN Threw
                               ELSE Value(auth.host)
                      ELSE Value(<<>>)

\* formatDeploymentUrl: /^http/.test(deploymentUrl) ? new URL(deploymentUrl).hostname
\*                                                  : deploymentUrl
formatDeploymentUrl(deploymentUrl) ==
    IF Len(deploymentUrl) >= Len(http) /\ SubSeq(deploymentUrl, 1, Len(http)) = http
    THEN URLHostname(deploymentUrl)
    ELSE Value(deploymentUrl)

\* the URL hostname setter: an empty or invalid host leaves the URL unchanged
SetHostname(url, h) ==
    LET e    == FirstIn(h, {"/", "\\", "?", "#", ":"}, 1)
        host == SubSeq(h, 1, e - 1)
    IN  IF host = <<>> \/ \E i \in 1..Len(host) : host[i] \in ForbiddenHostChars
        THEN url
        ELSE [url EXCEPT !.hostname = LowerCase(host)]

(***************************************************************************)
(* Constants of the program.                                               *)
(***************************************************************************)
MAX_AGE == 60 * 60 * 24
\* the RC domain middleware.ts passes: 'rc-00301507.vercel-support.app'
rcDomain ==
    <<"r","c","-","0","0","3","0","1","5","0","7",".",
      "v","e","r","c","e","l","-","s","u","p","p","o","r","t",".","a","p","p">>
\* the deployment the client's request reaches (the production deployment)
productionHost == <<"p","r","o","d",".","a","p","p">>
\* productionRcConfig of handleDeployment
productionRcConfig == [trafficRcPercent |-> 90]

\* mutant: r <= weight selects rc
selectBlueGreenDeployment_Lte(config, r) ==
    IF r <= config.trafficRcPercent * DrawScale THEN "rc" ELSE "production"

\* a selection that sends the weight's share of the draws to production
selectBlueGreenDeployment_Inverted(config, r) ==
    IF r < config.trafficRcPercent * DrawScale THEN "production" ELSE "rc"

\* selectBlueGreenDeployment: r is the value of Math.random() * 100, in units
\* of 1 / DrawScale
selectBlueGreenDeployment(config, r) ==
    IF r < config.trafficRcPercent * DrawScale THEN "rc" ELSE "production"


(***************************************************************************)
(* Cookies and responses.  A Set-Cookie occurrence is a record; a          *)
(* response carries its occurrences as a sequence (Headers.getSetCookie).  *)
(***************************************************************************)
RC_COOKIE == "release_candidate"

Cookie(name, value, maxAge) == [name |-> name, value |-> value, maxAge |-> maxAge]

\* ResponseCookies.set: replaces the cookie of that name, else adds it
CookiesSet(response, c) ==
    [response EXCEPT !.setCookie =
        SelectSeq(@, LAMBDA x : x.name # c.name) \o <<c>>]

\* mutant: Headers.set instead of Headers.append: the occurrence replaces the
\* ones before it
AppendSetCookie_Set(response, c) ==
    [response EXCEPT !.setCookie = <<c>>]

\* Headers.append('set-cookie', value): one more occurrence, none replaced
AppendSetCookie(response, c) ==
    [response EXCEPT !.setCookie = Append(@, c)]

\* NextResponse.next({ request: { headers } }): the request continues to the
\* page of the deployment the middleware runs on
NextResponseNext(host) ==
    [kind |-> "next", status |-> 200, setCookie |-> <<>>,
     acao |-> FALSE, origin |-> host]

\* the middleware returned undefined: the framework continues as for
\* NextResponse.next(), with nothing of the discarded response object
Undefined(host) ==
    [kind |-> "undefined", status |-> 200, setCookie |-> <<>>,
     acao |-> FALSE, origin |-> host]

(***************************************************************************)
(* middleware.ts, lines 7-71: the forwarded header set (a copy of the      *)
(* request's headers, enriched) and the base response.                     *)
(***************************************************************************)
\* authToken.value.replace(/ /g, '+')
ReplaceSpaces(s) == [i \in 1..Len(s) |-> IF s[i] = " " THEN "+" ELSE s[i]]

SearchParam(search, key) ==
    IF \E i \in 1..Len(search) : search[i][1] = key
    THEN <<search[CHOOSE i \in 1..Len(search) :
                search[i][1] = key /\ \A j \in 1..(i - 1) : search[j][1] # key][2]>>
    ELSE <<>>

middlewareHeaders(request) ==
    LET h0 == request.headers      \* new Headers(request.headers)
        h1 == IF ~Truthy(request.headers.override)
              THEN [h0 EXCEPT !.nextLocation = <<"geo">>]
              ELSE h0
        h2 == [h1 EXCEPT !.ser_uuid = <<"uuid">>,
                         !.pathname = <<request.url.pathname>>,
                         !.params   = <<"searchParams">>,
                         !.isMobile = <<"device">>,
                         !.isBot    = <<"bot">>]
    IN  IF request.cookies.authToken # <<>>
        THEN h2
        ELSE [h2 EXCEPT !.authToken = <<"btoa(now)">>, !.lang = <<"en">>]

middlewareResponse(request) ==
    LET authToken == request.cookies.authToken
        token == IF authToken # <<>> THEN <<ReplaceSpaces(authToken[1])>> ELSE <<>>
        cpn   == SearchParam(request.url.search, "cpn")
        r0 == NextResponseNext(request.url.hostname)
        r1 == CookiesSet(r0, Cookie("debug-uuid", "uuid", <<3000>>))
        r2 == IF authToken = <<>> /\ token # <<>>
              THEN CookiesSet(r1, Cookie("authToken", token[1], <<3000>>))
              ELSE r1
        r3 == IF request.cookies.ser_uuid = <<>>
              THEN CookiesSet(r2, Cookie("ser_uuid", "uuid", <<3000>>))
              ELSE r2
        r4 == IF cpn # <<>> /\ cpn[1] # ""
              THEN CookiesSet(r3, Cookie("cpn", cpn[1], <<>>))
              ELSE r3
    IN  [r4 EXCEPT !.acao = TRUE]

(***************************************************************************)
(* handleDeployment, up to its return or its upstream fetch.               *)
(***************************************************************************)
\* a derivation that accepts text/html whatever Sec-Fetch-Dest says
isDocumentRequest_AcceptToo(request) ==
    \/ request.headers.secFetchDest = <<"document">>
    \/ /\ request.headers.accept # <<>>
       /\ Includes(request.headers.accept[1], textHtml)

\* request.headers.has('sec-fetch-dest') ? get === 'document' :
\* request.headers.get('accept')?.includes('text/html')
isDocumentRequest(request) ==
    IF request.headers.secFetchDest # <<>>
    THEN request.headers.secFetchDest[1] = "document"
    ELSE request.headers.accept # <<>>
         /\ Includes(request.headers.accept[1], textHtml)

\* /vercel/i.test(headers.get('user-agent') || '')
isVercelUserAgent(headers) ==
    LET userAgent == IF Truthy(headers.userAgent) THEN headers.userAgent[1] ELSE <<>>
    IN  Includes(LowerCase(userAgent), vercel)

\* mutant: the method is not looked at
shouldSkipBlueGreenDeployment_NoMethod(request, headers) ==
    \/ ~isDocumentRequest(request)
    \/ isVercelUserAgent(headers)

shouldSkipBlueGreenDeployment(request, headers) ==
    \/ request.method # "GET"
    \/ ~isDocumentRequest(request)
    \/ isVercelUserAgent(headers)

\* request.cookies.get('release_candidate')?.value === v
releaseCandidateCookieIs(request, v) ==
    /\ request.cookies.release_candidate # <<>>
    /\ request.cookies.release_candidate[1] = v

\* request.headers.get('x-deployment-override') is truthy
hasDeploymentOverride(request) == Truthy(request.headers.override)

\* mutant: every path below /release-candidate/ is taken for the reserved path,
\* the reserved path itself is not
isReleaseCandidatePath_TrailingSlash(url) == url.pathname = "/release-candidate/"

isReleaseCandidatePath(url) == url.pathname = "/release-candidate"

\* mutant: the reserved path is checked before the sticky "false" cookie
handleDeploymentBranch_PathFirst(request, headers, r) ==
    IF shouldSkipBlueGreenDeployment(request, headers) THEN "skip"
    ELSE IF hasDeploymentOverride(request) THEN "loopGuard"
    ELSE IF isReleaseCandidatePath(request.url) THEN "forcedPath"
    ELSE IF releaseCandidateCookieIs(request, "false") THEN "stickyFalse"
    ELSE IF releaseCandidateCookieIs(request, "true") THEN "stickyTrue"
    ELSE IF selectBlueGreenDeployment(productionRcConfig, r) = "production"
         THEN "production"
    ELSE "rc"

\* mutant: a "false" cookie does not stop the split
handleDeploymentBranch_NoStickyFalse(request, headers, r) ==
    IF shouldSkipBlueGreenDeployment(request, headers) THEN "skip"
    ELSE IF hasDeploymentOverride(request) THEN "loopGuard"
    ELSE IF isReleaseCandidatePath(request.url) THEN "forcedPath"
    ELSE IF releaseCandidateCookieIs(request, "true") THEN "stickyTrue"
    ELSE IF selectBlueGreenDeployment(productionRcConfig, r) = "production"
         THEN "production"
    ELSE "rc"

\* mutant: a "true" cookie does not bypass the split
handleDeploymentBranch_NoStickyTrue(request, headers, r) ==
    IF shouldSkipBlueGreenDeployment(request, headers) THEN "skip"
    ELSE IF releaseCandidateCookieIs(request, "false") THEN "stickyFalse"
    ELSE IF hasDeploymentOverride(request) THEN "loopGuard"
    ELSE IF isReleaseCandidatePath(request.url) THEN "forcedPath"
    ELSE IF selectBlueGreenDeployment(productionRcConfig, r) = "production"
         THEN "production"
    ELSE "rc"

\* mutant: the loop guard is checked after the /release-candidate path
handleDeploymentBranch_GuardAfterPath(request, headers, r) ==
    IF shouldSkipBlueGreenDeployment(request, headers) THEN "skip"
    ELSE IF releaseCandidateCookieIs(request, "false") THEN "stickyFalse"
    ELSE IF isReleaseCandidatePath(request.url) THEN "forcedPath"
    ELSE IF hasDeploymentOverride(request) THEN "loopGuard"
    ELSE IF releaseCandidateCookieIs(request, "true") THEN "stickyTrue"
    ELSE IF selectBlueGreenDeployment(productionRcConfig, r) = "production"
         THEN "production"
    ELSE "rc"

\* the exit handleDeployment takes; r is the draw, used by "production" and
\* "rc" only
handleDeploymentBranch(request, headers, r) ==
    IF shouldSkipBlueGreenDeployment(request, headers) THEN "skip"
    ELSE IF releaseCandidateCookieIs(request, "false") THEN "stickyFalse"
    ELSE IF hasDeploymentOverride(request) THEN "loopGuard"
    ELSE IF isReleaseCandidatePath(request.url) THEN "forcedPath"
    ELSE IF releaseCandidateCookieIs(request, "true") THEN "stickyTrue"
    ELSE IF selectBlueGreenDeployment(productionRcConfig, r) = "production"
         THEN "production"
    ELSE "rc"

ReturningBranches == {"skip", "stickyFalse", "loopGuard", "production"}
FetchingBranches == {"forcedPath", "stickyTrue", "rc"}
DrawingBranches == {"production", "rc"}

\* a handleDeployment that writes release_candidate=false on every exit that
\* does not fetch
handleDeploymentReturn_EveryExit(branch, response) ==
    CookiesSet(response, Cookie(RC_COOKIE, "false", <<MAX_AGE>>))

\* the response handleDeployment returns on an exit that does not fetch
handleDeploymentReturn(branch, response) ==
    IF branch = "production"
    THEN CookiesSet(response, Cookie(RC_COOKIE, "false", <<MAX_AGE>>))
    ELSE response

(***************************************************************************)
(* getNextResponse, up to the fetch: the upstream URL and the header set   *)
(* sent with it.                                                           *)
(***************************************************************************)
getNextResponseUrl(req, domain) ==
    LET formattedDomain == formatDeploymentUrl(domain)
    IN  IF formattedDomain.threw THEN req.url
        ELSE SetHostname(req.url, formattedDomain.value)

\* mutant: the marker is not set on the forwarded header set
getNextResponseHeaders_NoMarker(domain, headers) == headers

getNextResponseHeaders(domain, headers) ==
    LET formattedDomain == formatDeploymentUrl(domain)
    IN  IF formattedDomain.threw THEN headers
        ELSE [headers EXCEPT !.override = <<formattedDomain.value>>]

\* the request fetch(url, { headers, redirect: 'manual' }) sends: no method is
\* given, so it is a GET; the cookie header travels in the copied header set
UpstreamRequest(req, url, headers) ==
    [method |-> "GET", url |-> url, headers |-> headers, cookies |-> req.cookies]

\* the redirect mode of the fetch
fetchRedirect_Follow == "follow"

fetchRedirect == "manual"

\* what fetch(url, { redirect }) resolves with when the target answers
\* `served`: in manual mode the answer itself, whatever its status; in follow
\* mode a 3xx answer is followed by a second request, whose answer it is
FetchResolve(served, redirect) ==
    IF redirect = "follow" /\ served.status \in 300..399
    THEN [requests |-> 2, response |-> [served EXCEPT !.status = 200]]
    ELSE [requests |-> 1, response |-> served]

\* a getNextResponse that rejects an error status
getNextResponseReturn_Throws(deployment) ==
    [threw |-> deployment.status >= 400, errorLogged |-> deployment.status >= 400,
     value |-> deployment]

\* getNextResponse, after the fetch resolved with `deployment`: a status of
\* 400 or more is logged with console.error, and the response is returned
getNextResponseReturn(deployment) ==
    [threw |-> FALSE, errorLogged |-> deployment.status >= 400,
     value |-> deployment]

(***************************************************************************)
(* fetchRCDeployment, after the fetch resolved with `deployment`.  The      *)
(* headers of the fetched Response are taken to accept append, as the code *)
(* expects of them.                                                        *)
(***************************************************************************)
RECURSIVE AppendAll(_, _)
AppendAll(response, values) ==
    IF values = <<>> THEN response
    ELSE AppendAll(AppendSetCookie(response, Head(values)), Tail(values))

fetchRCDeployment(deployment, _response) ==
    AppendAll(deployment,
              _response.setCookie \o <<Cookie(RC_COOKIE, "true", <<>>)>>)


(***************************************************************************)
(* Inputs: the requests a client may send and the answers an upstream      *)
(* page may give.                                                          *)
(***************************************************************************)
acceptHtml == textHtml \o <<",", "*", "/", "*">>
acceptAny == <<"*", "/", "*">>
mozilla == <<"M", "o", "z">>
vercelBot == <<"x", "-", "V", "E", "R", "c", "e", "l", "-", "b", "o", "t">>

Methods == {"GET", "POST"}
Paths == {"/", "/release-candidate", "/release-candidate/"}
Searches == {<<>>, << <<"cpn", "c1">> >>}
Ports == {"", "8443"}
SecFetchDests == {<<>>, <<"">>, <<"document">>, <<"image">>}
Accepts == {<<>>, <<acceptHtml>>, <<acceptAny>>}
UserAgents == {<<>>, <<mozilla>>, <<vercelBot>>}
Overrides == {<<>>, << <<>> >>, <<rcDomain>>}
RcCookies == {<<>>, <<"true">>, <<"false">>, <<"1">>}
SerUuids == {<<>>, <<"u0">>}
AuthTokens == {<<>>, << <<"t", " ", "0">> >>}

\* draws at the ends of [0, 100) and on both sides of the configured weight
Draws ==
    {0, productionRcConfig.trafficRcPercent * DrawScale - 1,
        productionRcConfig.trafficRcPercent * DrawScale,
        100 * DrawScale - 1}

Statuses == {200, 302, 404, 500}
AppCookies == {<<>>, <<Cookie("session", "s1", <<>>)>>}

NoHeader == <<>>

ClientRequests ==
    {[method  |-> m,
      url     |-> [protocol |-> "https:", hostname |-> productionHost,
                   port |-> pt, pathname |-> p, search |-> q],
      headers |-> [secFetchDest |-> d, accept |-> a, userAgent |-> u,
                   override |-> o, nextLocation |-> NoHeader,
                   ser_uuid |-> NoHeader, pathname |-> NoHeader,
                   params |-> NoHeader, isMobile |-> NoHeader,
                   isBot |-> NoHeader, authToken |-> NoHeader, lang |-> NoHeader],
      cookies |-> [release_candidate |-> c, ser_uuid |-> su, authToken |-> at]] :
        m \in Methods, pt \in Ports, p \in Paths, q \in Searches,
        d \in SecFetchDests,
        a \in Accepts, u \in UserAgents, o \in Overrides, c \in RcCookies,
        su \in SerUuids, at \in AuthTokens}

(***************************************************************************)
(* One invocation of middleware() on a deployment: a frame.                *)
(*   state "fetching": suspended at the await of fetch in getNextResponse  *)
(*   state "returned": middleware() has returned `result`                  *)
(***************************************************************************)
\* a middleware that writes to the request's own Headers and URL objects
requestAfter_Aliased(request, headers, url) ==
    [request EXCEPT !.headers = headers, !.url = url]

\* the inbound request object once the invocation has written `headers` and
\* `url`: both are copies (new Headers(request.headers), new URL(req.url)), and
\* the request's cookies are only read, so the object is as it arrived
requestAfter(request, headers, url) == request

\* middleware() run on `request` up to its return or the await of the fetch
Enter(request, r) ==
    LET headers  == middlewareHeaders(request)
        response == middlewareResponse(request)
        branch   == handleDeploymentBranch(request, headers, r)
        base     == [host |-> request.url.hostname, request |-> request,
                     inbound |-> requestAfter(request, headers, request.url),
                     headers |-> headers, response |-> response,
                     branch |-> branch,
                     draw |-> IF branch \in DrawingBranches THEN <<r>> ELSE <<>>,
                     state |-> "returned", threw |-> FALSE,
                     upstream |-> <<>>, deployment |-> <<>>,
                     served |-> <<>>, errorLogged |-> FALSE,
                     result |-> handleDeploymentReturn(branch, response)]
    IN  IF branch \in ReturningBranches THEN base
        ELSE IF formatDeploymentUrl(rcDomain).threw
             \* new URL() threw inside getNextResponse: caught by middleware()
             THEN [base EXCEPT !.threw = TRUE,
                               !.result = Undefined(request.url.hostname)]
        ELSE [base EXCEPT
                !.state = "fetching",
                !.inbound = requestAfter(request,
                                getNextResponseHeaders(rcDomain, headers),
                                getNextResponseUrl(request, rcDomain)),
                !.headers = getNextResponseHeaders(rcDomain, headers),
                !.upstream = <<UpstreamRequest(request,
                                  getNextResponseUrl(request, rcDomain),
                                  getNextResponseHeaders(rcDomain, headers))>>]

Top == frames[Len(frames)]

Counted(f) ==
    /\ fetches' = fetches + (IF f.state = "fetching" THEN 1 ELSE 0)
    /\ draws' = draws + Len(f.draw)

\* the client sends a request to the production deployment
ClientRequest ==
    /\ frames = <<>>
    /\ \E request \in ClientRequests, r \in Draws :
          LET f == Enter(request, r)
          IN  /\ frames' = <<f>>
              /\ Counted(f)
    /\ UNCHANGED <<jar, sel, inflight, fmt, calls>>

\* the proxied request reaches the target deployment, which runs the same
\* middleware on it
UpstreamReceive ==
    /\ frames # <<>>
    /\ Top.state = "fetching"
    /\ Len(frames) < MaxDepth
    /\ \E r \in Draws :
          LET f == Enter(Top.upstream[1], r)
          IN  /\ frames' = Append(frames, f)
              /\ Counted(f)
    /\ UNCHANGED <<jar, sel, inflight, fmt, calls>>

\* the HTTP response of a deployment whose middleware returned `result`
Served(result, status, app) ==
    IF result.kind = "fetched" THEN result
    ELSE [kind |-> "fetched", status |-> status,
          setCookie |-> result.setCookie \o app,
          acao |-> result.acao, origin |-> result.origin]

\* the invocation `f`, suspended at the fetch, resumed with the target's
\* answer `served`: getNextResponse returns the fetched response and
\* fetchRCDeployment appends the cookies
Resume(f, served) ==
    LET resolved == FetchResolve(served, fetchRedirect)
        got      == getNextResponseReturn(resolved.response)
    IN  [f EXCEPT
            !.state = "returned",
            !.served = <<served>>,
            !.deployment = <<resolved.response>>,
            !.errorLogged = got.errorLogged,
            !.threw = got.threw,
            !.result = IF got.threw THEN Undefined(f.host)
                       ELSE fetchRCDeployment(got.value, f.response)]

\* the invocation `f`, suspended at the fetch, resumed with a rejection:
\* handleDeployment throws, middleware() catches, logs and returns undefined
Reject(f) ==
    [f EXCEPT !.state = "returned", !.threw = TRUE, !.result = Undefined(f.host)]

\* the fetch of the frame below resolves with the target's response:
\* getNextResponse returns it and fetchRCDeployment appends the cookies
UpstreamRespond ==
    /\ Len(frames) >= 2
    /\ Top.state = "returned"
    /\ \E status \in Statuses, app \in AppCookies :
          LET below  == frames[Len(frames) - 1]
              served == Served(Top.result, status, app)
          IN  /\ frames' = [SubSeq(frames, 1, Len(frames) - 1)
                            EXCEPT ![Len(frames) - 1] = Resume(below, served)]
              /\ fetches' = fetches
                                + FetchResolve(served, fetchRedirect).requests - 1
    /\ UNCHANGED <<jar, draws, sel, inflight, fmt, calls>>

\* the fetch rejects (network error, DNS failure, connection refused):
\* handleDeployment throws, middleware() catches, logs and returns undefined
FetchFail ==
    /\ frames # <<>>
    /\ Top.state = "fetching"
    /\ frames' = [frames EXCEPT ![Len(frames)] = Reject(Top)]
    /\ UNCHANGED <<jar, fetches, draws, sel, inflight, fmt, calls>>

\* a client that does not store the cookies of a response
StoreCookies_Ignore(j, setCookie) == j

\* the client's cookie store after the Set-Cookie occurrences of a response
RECURSIVE StoreCookies(_, _)
StoreCookies(j, setCookie) ==
    IF setCookie = <<>> THEN j
    ELSE StoreCookies(
            IF Head(setCookie).name = RC_COOKIE
            THEN <<[value |-> Head(setCookie).value,
                    maxAge |-> Head(setCookie).maxAge]>>
            ELSE j,
            Tail(setCookie))

\* the client receives the response and stores its cookies
ClientStore ==
    /\ Len(frames) = 1
    /\ Top.state = "returned"
    /\ jar' = StoreCookies(jar, Top.result.setCookie)
    /\ frames' = <<>>
    /\ fetches' = 0
    /\ draws' = 0
    /\ UNCHANGED <<sel, inflight, fmt, calls>>

\* the stored cookie expires or is cleared
CookieExpire ==
    /\ frames = <<>>
    /\ jar # <<>>
    /\ jar' = <<>>
    /\ UNCHANGED <<frames, fetches, draws, sel, inflight, fmt, calls>>

\* no identifier is being normalized on its own
FmtIdle == [input |-> rcDomain, out |-> <<>>, again |-> <<>>]

\* the requests one client can have in flight at once
Tabs == {"a", "b"}
NoneInFlight == [t \in Tabs |-> <<>>]

SelIdle == [w |-> productionRcConfig.trafficRcPercent, r |-> 0, out |-> "none"]

Init ==
    /\ frames = <<>>
    /\ jar = <<>>
    /\ fetches = 0
    /\ draws = 0
    /\ sel = SelIdle
    /\ inflight = NoneInFlight
    /\ fmt = FmtIdle
    /\ calls = <<>>

Next ==
    \/ ClientRequest
    \/ UpstreamReceive
    \/ UpstreamRespond
    \/ FetchFail
    \/ ClientStore
    \/ CookieExpire

Spec == Init /\ [][Next]_vars


(***************************************************************************)
(* selectBlueGreenDeployment on its own: every weight 0..100 against       *)
(* every draw of [0, 100).                                                 *)
(***************************************************************************)
SelectInit ==
    /\ frames = <<>>
    /\ jar = <<>>
    /\ fetches = 0
    /\ draws = 0
    /\ sel \in [w : 0..100, r : 0..(100 * DrawScale - 1), out : {"none"}]
    /\ inflight = NoneInFlight
    /\ fmt = FmtIdle
    /\ calls = <<>>

SelectApply ==
    /\ sel.out = "none"
    /\ sel' = [sel EXCEPT !.out =
                selectBlueGreenDeployment([trafficRcPercent |-> sel.w], sel.r)]
    /\ UNCHANGED <<frames, jar, fetches, draws, inflight, fmt, calls>>

SelectNext == SelectApply

SelectSpec == SelectInit /\ [][SelectNext]_vars

(***************************************************************************)
(* formatDeploymentUrl on its own: identifiers made of a prefix, a host    *)
(* and a suffix, normalized once and, when that returned, once more.       *)
(***************************************************************************)
IdPrefixes ==
    {<<>>, http \o <<":">>, http \o <<":", "/", "/">>,
     https \o <<":", "/", "/">>, <<"H", "T", "T", "P", ":", "/", "/">>,
     http \o <<"x", ":", "/", "/">>}
IdHosts ==
    {<<>>, <<"r", "c", ".", "a", "p", "p">>, <<"R", "c", ".", "A", "p", "p">>,
     http \o <<"b", "i", "n", ".", "o", "r", "g">>, <<"r", "c", " ", "a", "p", "p">>}
IdSuffixes ==
    {<<>>, <<"/">>, <<"/", "p", "?", "q", "=", "1">>, <<":", "8", "0">>,
     <<":", "x">>}
Identifiers ==
    {p \o h \o x : p \in IdPrefixes, h \in IdHosts, x \in IdSuffixes}

FormatInit ==
    /\ frames = <<>>
    /\ jar = <<>>
    /\ fetches = 0
    /\ draws = 0
    /\ sel = SelIdle
    /\ inflight = NoneInFlight
    /\ fmt \in [input : Identifiers, out : {<<>>}, again : {<<>>}]
    /\ calls = <<>>

\* formatDeploymentUrl(input)
FormatApply ==
    /\ fmt.out = <<>>
    /\ fmt' = [fmt EXCEPT !.out = <<formatDeploymentUrl(fmt.input)>>]
    /\ UNCHANGED <<frames, jar, fetches, draws, sel, inflight, calls>>

\* formatDeploymentUrl(formatDeploymentUrl(input)), when the first call returned
FormatAgain ==
    /\ fmt.out # <<>>
    /\ ~fmt.out[1].threw
    /\ fmt.again = <<>>
    /\ fmt' = [fmt EXCEPT !.again = <<formatDeploymentUrl(fmt.out[1].value)>>]
    /\ UNCHANGED <<frames, jar, fetches, draws, sel, inflight, calls>>

FormatNext == FormatApply \/ FormatAgain

FormatSpec == FormatInit /\ [][FormatNext]_vars

(***************************************************************************)
(* One client with several requests in flight at once: each request is     *)
(* served by its own invocation of middleware(), which holds nothing but   *)
(* its parameters and locals; the client's cookie store is the only thing  *)
(* the requests have in common.                                            *)
(***************************************************************************)
\* the eligible requests a client whose cookie store is `j` can send
TabRequests(j) ==
    {[method  |-> "GET",
      url     |-> [protocol |-> "https:", hostname |-> productionHost,
                   port |-> "", pathname |-> p, search |-> <<>>],
      headers |-> [secFetchDest |-> <<"document">>, accept |-> a,
                   userAgent |-> <<mozilla>>,
                   override |-> NoHeader, nextLocation |-> NoHeader,
                   ser_uuid |-> NoHeader, pathname |-> NoHeader,
                   params |-> NoHeader, isMobile |-> NoHeader,
                   isBot |-> NoHeader, authToken |-> NoHeader, lang |-> NoHeader],
      cookies |-> [release_candidate |->
                        IF j = <<>> THEN <<>> ELSE <<j[1].value>>,
                   ser_uuid |-> <<>>, authToken |-> <<>>]] :
        p \in Paths, a \in {<<acceptHtml>>}}

\* a tab sends a request, with the cookie the client holds at that moment
TabRequest(t) ==
    /\ inflight[t] = <<>>
    /\ \E request \in TabRequests(jar), r \in Draws :
          inflight' = [inflight EXCEPT ![t] = <<Enter(request, r)>>]
    /\ UNCHANGED <<frames, jar, fetches, draws, sel, fmt, calls>>

\* the fetch of a tab's invocation resolves: the target deployment ran the
\* middleware on the proxied request and answered
TabRespond(t) ==
    /\ inflight[t] # <<>>
    /\ inflight[t][1].state = "fetching"
    /\ \E r \in Draws, status \in Statuses, app \in AppCookies :
          LET target == Enter(inflight[t][1].upstream[1], r)
          IN  /\ target.state = "returned"
              /\ inflight' = [inflight EXCEPT ![t] =
                    <<Resume(inflight[t][1], Served(target.result, status, app))>>]
    /\ UNCHANGED <<frames, jar, fetches, draws, sel, fmt, calls>>

\* the fetch of a tab's invocation rejects
TabFetchFail(t) ==
    /\ inflight[t] # <<>>
    /\ inflight[t][1].state = "fetching"
    /\ inflight' = [inflight EXCEPT ![t] = <<Reject(inflight[t][1])>>]
    /\ UNCHANGED <<frames, jar, fetches, draws, sel, fmt, calls>>

\* the client receives a tab's response and stores its cookies
TabStore(t) ==
    /\ inflight[t] # <<>>
    /\ inflight[t][1].state = "returned"
    /\ jar' = StoreCookies(jar, inflight[t][1].result.setCookie)
    /\ inflight' = [inflight EXCEPT ![t] = <<>>]
    /\ UNCHANGED <<frames, fetches, draws, sel, fmt, calls>>

ConcurrentNext ==
    \E t \in Tabs :
        \/ TabRequest(t)
        \/ TabRespond(t)
        \/ TabFetchFail(t)
        \/ TabStore(t)

ConcurrentSpec == Init /\ [][ConcurrentNext]_vars

(***************************************************************************)
(* The route handlers /api/a and /api/b.  Each is the other with "a" and   *)
(* "b" exchanged.  request.headers is taken to accept set, as the code     *)
(* expects of it; the middleware in front of the routes removes no header. *)
(***************************************************************************)
MaxRouteDepth == 3

Routes == {"a", "b"}

\* the route whose URL the handler of `route` fetches
OtherRoute(route) == IF route = "a" THEN "b" ELSE "a"

InitialRoutes == {<<>>, <<"">>, <<"a">>, <<"b">>}

\* the headers a request to a route can carry
RouteHeaders ==
    [xInitialRoute : InitialRoutes, accept : Accepts, userAgent : UserAgents]

\* the response headers a nested fetch can resolve with
ResHeaders == {<<"content-type">>, <<"content-type", "x-matched-path">>}

\* a handler that fetches the other route without marking the request
GET_Unmarked(route, headers) ==
    IF headers.xInitialRoute = <<>>
    THEN [route |-> route, received |-> headers, reqHeaders |-> headers,
          state |-> "fetching", fetched |-> 1,
          fetch |-> <<[route |-> OtherRoute(route), headers |-> headers]>>,
          json |-> <<>>]
    ELSE [route |-> route, received |-> headers, reqHeaders |-> headers,
          state |-> "returned", fetched |-> 0, fetch |-> <<>>,
          json |-> <<[reqHeaders |-> headers, resHeaders |-> <<>>]>>]

\* GET of a route, up to its return or the await of its fetch: without
\* x-initial-route it sets the header to its own name on request.headers and
\* fetches the other route with those headers; with the header (has, so any
\* value) it answers at once
GET(route, headers) ==
    IF headers.xInitialRoute = <<>>
    THEN LET reqHeaders == [headers EXCEPT !.xInitialRoute = <<route>>]
         IN  [route |-> route, received |-> headers, reqHeaders |-> reqHeaders,
              state |-> "fetching", fetched |-> 1,
              fetch |-> <<[route |-> OtherRoute(route), headers |-> reqHeaders]>>,
              json |-> <<>>]
    ELSE [route |-> route, received |-> headers, reqHeaders |-> headers,
          state |-> "returned", fetched |-> 0, fetch |-> <<>>,
          json |-> <<[reqHeaders |-> headers, resHeaders |-> <<>>]>>]

TopCall == calls[Len(calls)]

\* a client requests /api/a or /api/b
RouteRequest ==
    /\ calls = <<>>
    /\ \E route \in Routes, headers \in RouteHeaders :
          calls' = <<GET(route, headers)>>
    /\ UNCHANGED <<frames, jar, fetches, draws, sel, inflight, fmt>>

\* the nested fetch reaches the other route's handler
RouteReceive ==
    /\ calls # <<>>
    /\ TopCall.state = "fetching"
    /\ Len(calls) < MaxRouteDepth
    /\ calls' = Append(calls, GET(TopCall.fetch[1].route, TopCall.fetch[1].headers))
    /\ UNCHANGED <<frames, jar, fetches, draws, sel, inflight, fmt>>

\* the nested fetch resolves: the awaiting handler answers with its request
\* headers and the response's headers
RouteRespond ==
    /\ Len(calls) >= 2
    /\ TopCall.state = "returned"
    /\ \E resHeaders \in ResHeaders :
          LET below == calls[Len(calls) - 1]
          IN  calls' = [SubSeq(calls, 1, Len(calls) - 1)
                            EXCEPT ![Len(calls) - 1] =
                                [below EXCEPT
                                    !.state = "returned",
                                    !.json = <<[reqHeaders |-> below.reqHeaders,
                                                resHeaders |-> resHeaders]>>]]
    /\ UNCHANGED <<frames, jar, fetches, draws, sel, inflight, fmt>>

\* the nested fetch rejects: the awaiting handler throws (only a handler the
\* client reached awaits a fetch, so the error goes to the client)
RouteFetchFail ==
    /\ calls # <<>>
    /\ TopCall.state = "fetching"
    /\ calls' = [SubSeq(calls, 1, Len(calls))
                    EXCEPT ![Len(calls)] = [TopCall EXCEPT !.state = "threw"]]
    /\ UNCHANGED <<frames, jar, fetches, draws, sel, inflight, fmt>>

\* the client receives the answer of the route it requested
RouteDone ==
    /\ Len(calls) = 1
    /\ TopCall.state \in {"returned", "threw"}
    /\ calls' = <<>>
    /\ UNCHANGED <<frames, jar, fetches, draws, sel, inflight, fmt>>

RouteNext ==
    \/ RouteRequest
    \/ RouteReceive
    \/ RouteRespond
    \/ RouteFetchFail
    \/ RouteDone

\* every fetch completes and every answer is delivered
RouteSpec ==
    /\ Init
    /\ [][RouteNext]_vars
    /\ WF_vars(RouteReceive)
    /\ WF_vars(RouteRespond)
    /\ WF_vars(RouteDone)

(***************************************************************************)
(* Vocabulary of the properties.                                           *)
(***************************************************************************)
Frames == {frames[k] : k \in 1..Len(frames)}

\* the client's request has been answered and the answer not yet stored
Finished == Len(frames) = 1 /\ frames[1].state = "returned"

\* the request carries the x-deployment-override header, whatever its value
CarriesLoopGuard(request) == request.headers.override # <<>>
\* the request carries the header with a non-empty value
CarriesNonEmptyLoopGuard(request) ==
    CarriesLoopGuard(request) /\ request.headers.override[1] # <<>>

\* GET, document request, user agent without the infrastructure signature
PassesFilter(request) ==
    /\ request.method = "GET"
    /\ isDocumentRequest(request)
    /\ ~isVercelUserAgent(request.headers)

\* eligible for splitting: passes the filter and carries no loop-guard header
Eligible(request) == PassesFilter(request) /\ ~CarriesLoopGuard(request)

\* handleDeployment returned the caller's response as it received it
PassThrough(f) ==
    /\ f.state = "returned"
    /\ ~f.threw
    /\ f.result = f.response
    /\ f.upstream = <<>>
    /\ f.draw = <<>>

\* handleDeployment proxied to the RC deployment without a draw: it fetches
\* from the RC host, and what it returns is the RC deployment's response
RoutedToRC(f) ==
    /\ f.upstream # <<>>
    /\ f.upstream[1].url.hostname = rcDomain
    /\ (f.state = "returned" /\ ~f.threw
            => f.result.kind = "fetched" /\ f.result.origin = rcDomain)

HasCookie(response, name, value) ==
    \E i \in 1..Len(response.setCookie) :
        response.setCookie[i].name = name /\ response.setCookie[i].value = value

(***************************************************************************)
(* Properties.                                                             *)
(***************************************************************************)

\* C1 as stated: every request that carries the x-deployment-override header,
\* whatever the header's value, gets the caller's response back unmodified,
\* with no upstream fetch, no draw and no cookie added; and one client request
\* causes at most one upstream fetch in total.
C1_AnyLoopGuardPassesThrough ==
    /\ \A f \in Frames : CarriesLoopGuard(f.request) => PassThrough(f)
    /\ fetches <= 1

\* C1 (amended): every request that carries a non-empty x-deployment-override
\* header gets the caller's response back unmodified, with no upstream fetch,
\* no draw and no cookie added, for any method, path and cookie; and since the
\* proxied request carries the resolved RC hostname in that header, one client
\* request causes at most one upstream fetch in total.
C1_LoopPrevention ==
    /\ \A f \in Frames : CarriesNonEmptyLoopGuard(f.request) => PassThrough(f)
    /\ fetches <= 1

\* the proxied request was handled by the target deployment, which passed it
\* through at the loop-guard check
C1_Witness ==
    /\ Len(frames) = 2
    /\ fetches = 1
    /\ frames[2].branch = "loopGuard"
    /\ frames[2].request.headers.override = <<rcDomain>>
    /\ PassThrough(frames[2])

\* C2: once the client has stored a release_candidate cookie that a response
\* wrote (value v), every eligible request it then sends with that cookie is
\* routed to the same target by handleDeployment ("false": the base response
\* is passed through; "true": proxied to the RC host), without a draw, for
\* every path, and the response it stores leaves the cookie's value as it was.
C2_Stickiness ==
    [][ ( /\ Finished
          /\ jar # <<>>
          /\ frames[1].request.cookies.release_candidate = <<jar[1].value>>
          /\ Eligible(frames[1].request) )
        => ( /\ jar[1].value = "false" => PassThrough(frames[1])
             /\ jar[1].value = "true" => RoutedToRC(frames[1])
             /\ frames[1].draw = <<>>
             /\ jar' # <<>>
             /\ jar'[1].value = jar[1].value ) ]_vars

\* a client holding release_candidate=true sent GET / with it and was answered
\* by the RC deployment
C2_Witness ==
    /\ Finished
    /\ jar # <<>>
    /\ jar[1].value = "true"
    /\ frames[1].request.cookies.release_candidate = <<"true">>
    /\ Eligible(frames[1].request)
    /\ frames[1].request.url.pathname = "/"
    /\ frames[1].result.kind = "fetched"
    /\ frames[1].result.origin = rcDomain

\* C3: a request that passes the filter and whose release_candidate cookie is
\* "false" gets the base response back unmodified, with no upstream fetch, no
\* draw and no cookie change, for every path, /release-candidate included.
C3_StickyFalsePrecedence ==
    \A f \in Frames :
        ( /\ PassesFilter(f.request)
          /\ f.request.cookies.release_candidate = <<"false">> )
        => PassThrough(f) /\ f.branch = "stickyFalse"

\* GET /release-candidate with release_candidate=false was passed through
C3_Witness ==
    /\ Finished
    /\ Eligible(frames[1].request)
    /\ frames[1].request.url.pathname = "/release-candidate"
    /\ frames[1].request.cookies.release_candidate = <<"false">>
    /\ PassThrough(frames[1])
    /\ fetches = 0

\* C4: an eligible request to exactly /release-candidate whose cookie is absent
\* or not "false" is proxied to the RC host and no draw is made: what
\* handleDeployment returns is the RC deployment's response, never the base
\* response.
C4_ForcedPathPrecedence ==
    \A f \in Frames :
        ( /\ Eligible(f.request)
          /\ f.request.url.pathname = "/release-candidate"
          /\ f.request.cookies.release_candidate # <<"false">> )
        => RoutedToRC(f) /\ f.draw = <<>> /\ draws = 0

\* GET /release-candidate without a cookie was answered by the RC deployment
C4_Witness ==
    /\ Finished
    /\ Eligible(frames[1].request)
    /\ frames[1].request.url.pathname = "/release-candidate"
    /\ frames[1].request.cookies.release_candidate = <<>>
    /\ frames[1].branch = "forcedPath"
    /\ frames[1].result.kind = "fetched"
    /\ frames[1].result.origin = rcDomain

\* C5: an eligible request whose release_candidate cookie is "true" is proxied
\* to the RC host on every path, and the weighted selection is not performed.
C5_StickyTrueRouting ==
    \A f \in Frames :
        ( /\ Eligible(f.request)
          /\ f.request.cookies.release_candidate = <<"true">> )
        => RoutedToRC(f) /\ f.draw = <<>> /\ f.branch \in {"forcedPath", "stickyTrue"}

\* GET / with release_candidate=true took the sticky-true exit and was answered
\* by the RC deployment
C5_Witness ==
    /\ Finished
    /\ Eligible(frames[1].request)
    /\ frames[1].request.url.pathname = "/"
    /\ frames[1].request.cookies.release_candidate = <<"true">>
    /\ frames[1].branch = "stickyTrue"
    /\ frames[1].result.kind = "fetched"
    /\ draws = 0

\* C6: for every weight w in 0..100 and every draw r of [0, 100), the splitter
\* returns "rc" exactly when r < w; r = w gives "production"; w = 0 always
\* gives "production" and w = 100 always gives "rc".
C6_WeightedSelection ==
    sel.out # "none" =>
        /\ sel.out \in {"rc", "production"}
        /\ sel.out = "rc" <=> sel.r < sel.w * DrawScale
        /\ sel.r = sel.w * DrawScale => sel.out = "production"
        /\ sel.w = 0 => sel.out = "production"
        /\ sel.w = 100 => sel.out = "rc"

\* the boundary: a draw equal to the weight selected production
C6_Witness ==
    /\ sel.out = "production"
    /\ sel.w = 50
    /\ sel.r = sel.w * DrawScale

\* C7: a request whose method is not GET, or that is not a document request, or
\* whose user agent contains "vercel" in any letter case, gets the base
\* response back with no upstream fetch and no release_candidate cookie,
\* whatever its cookies and path.
C7_IneligiblePassThrough ==
    \A f \in Frames :
        ( \/ f.request.method # "GET"
          \/ ~isDocumentRequest(f.request)
          \/ isVercelUserAgent(f.request.headers) )
        => /\ PassThrough(f)
           /\ ~HasCookie(f.result, RC_COOKIE, "true")
           /\ ~HasCookie(f.result, RC_COOKIE, "false")

\* POST /release-candidate with release_candidate=true was passed through
C7_Witness ==
    /\ Finished
    /\ frames[1].request.method = "POST"
    /\ frames[1].request.url.pathname = "/release-candidate"
    /\ frames[1].request.cookies.release_candidate = <<"true">>
    /\ ~CarriesLoopGuard(frames[1].request)
    /\ isDocumentRequest(frames[1].request)
    /\ PassThrough(frames[1])

\* C8 as stated: when the upstream fetch fails, the request is not completed as
\* if a target had been chosen: middleware() does not end by letting the
\* request continue to the local deployment.
C8_TransportFailureSurfaces ==
    \A f \in Frames :
        f.threw => ~(f.state = "returned" /\ f.result.kind \in {"next", "undefined"})

\* C9: once the fetch has resolved, the final response has the upstream's
\* status, body origin and headers, and its Set-Cookie occurrences are the
\* upstream's, then the base response's, then one release_candidate=true, each
\* a separate occurrence.
C9_CookieAccumulation ==
    \A f \in Frames :
        f.deployment # <<>> =>
            LET d == f.deployment[1]
                n == Len(d.setCookie) + Len(f.response.setCookie)
            IN  /\ f.result.kind = "fetched"
                /\ f.result.status = d.status
                /\ f.result.origin = d.origin
                /\ f.result.acao = d.acao
                /\ Len(f.result.setCookie) = n + 1
                /\ SubSeq(f.result.setCookie, 1, n) =
                        d.setCookie \o f.response.setCookie
                /\ f.result.setCookie[n + 1].name = RC_COOKIE
                /\ f.result.setCookie[n + 1].value = "true"

\* the upstream and the base response both set debug-uuid and the upstream page
\* set a cookie of its own: all of them are on the final response
C9_Witness ==
    /\ Finished
    /\ frames[1].deployment # <<>>
    /\ HasCookie(frames[1].deployment[1], "session", "s1")
    /\ HasCookie(frames[1].result, "session", "s1")
    /\ HasCookie(frames[1].result, RC_COOKIE, "true")
    /\ Cardinality({i \in 1..Len(frames[1].result.setCookie) :
                        frames[1].result.setCookie[i].name = "debug-uuid"}) = 2

\* C10 as stated: every release_candidate cookie written, "false" or "true",
\* carries Max-Age 86400.
C10_StickyCookieLifetime ==
    \A f \in Frames :
        f.state = "returned" =>
            \A i \in 1..Len(f.result.setCookie) :
                f.result.setCookie[i].name = RC_COOKIE
                    => f.result.setCookie[i].maxAge = <<86400>>

\* the response handleDeployment returned carries a release_candidate cookie
WritesRcCookie(f) ==
    /\ f.state = "returned"
    /\ \E i \in 1..Len(f.result.setCookie) : f.result.setCookie[i].name = RC_COOKIE

\* C11 as stated: the release_candidate cookie is written only on the
\* sticky-true exit and on the two exits of the random split; no response of
\* the filter exit, the sticky-false exit, the loop-guard exit or the
\* /release-candidate exit carries it.
C11_NoCookieOnForcedPath ==
    \A f \in Frames :
        WritesRcCookie(f) => f.branch \in {"stickyTrue", "production", "rc"}

\* C11 (amended): the release_candidate cookie is written only on the exits
\* that proxy to the RC deployment (/release-candidate path, sticky true,
\* split drawing rc: release_candidate=true) and on the split's production
\* exit (release_candidate=false); no response of the filter exit, the
\* sticky-false exit or the loop-guard exit carries it.
C11_CookieWrittenOnlyOnRoutingExits ==
    \A f \in Frames :
        /\ WritesRcCookie(f) =>
              f.branch \in {"forcedPath", "stickyTrue", "production", "rc"}
        /\ WritesRcCookie(f) /\ f.branch \in FetchingBranches =>
              HasCookie(f.result, RC_COOKIE, "true")
        /\ WritesRcCookie(f) /\ f.branch = "production" =>
              HasCookie(f.result, RC_COOKIE, "false")

\* a request for /release-candidate that carried no release_candidate cookie
\* was proxied, and the response returned for it writes release_candidate=true
C11_Witness ==
    \E f \in Frames :
        /\ f.branch = "forcedPath"
        /\ f.request.cookies.release_candidate = <<>>
        /\ f.state = "returned"
        /\ HasCookie(f.result, RC_COOKIE, "true")

\* the draw falls in the release candidate's share of [0, 100)
SelectsRc(draw) == draw[1] < productionRcConfig.trafficRcPercent * DrawScale

\* the case of C12 as stated: eligible, no loop-guard header, no
\* release_candidate cookie, a path other than /release-candidate
SplitCase(request) ==
    /\ Eligible(request)
    /\ request.cookies.release_candidate = <<>>
    /\ request.url.pathname # "/release-candidate"

\* the case the code splits: passes the filter, loop-guard header absent or
\* empty, release_candidate cookie absent or neither "true" nor "false", a
\* path other than /release-candidate
SplitCaseOfCode(request) ==
    /\ PassesFilter(request)
    /\ ~CarriesNonEmptyLoopGuard(request)
    /\ request.cookies.release_candidate \notin {<<"true">>, <<"false">>}
    /\ request.url.pathname # "/release-candidate"

\* the base response with release_candidate=false attached, and no fetch
ProductionOutcome(f) ==
    /\ f.state = "returned"
    /\ ~f.threw
    /\ f.upstream = <<>>
    /\ f.result.kind = "next"
    /\ HasCookie(f.result, RC_COOKIE, "false")
    /\ ~HasCookie(f.result, RC_COOKIE, "true")
    /\ [f.result EXCEPT !.setCookie = <<>>] = [f.response EXCEPT !.setCookie = <<>>]
    /\ \A i \in 1..Len(f.response.setCookie) :
          \E j \in 1..Len(f.result.setCookie) :
              f.result.setCookie[j] = f.response.setCookie[i]

\* a proxied response from the RC host carrying release_candidate=true
RcOutcome(f) ==
    /\ RoutedToRC(f)
    /\ (f.state = "returned" /\ ~f.threw
            => HasCookie(f.result, RC_COOKIE, "true"))

\* C12 as stated: an eligible request with no loop-guard header, no
\* release_candidate cookie and a path other than /release-candidate is
\* proxied to the RC host and answered with release_candidate=true when the
\* draw selects the release candidate, and answered with the base response
\* plus release_candidate=false, without a fetch, when the draw selects
\* production; release_candidate=false is attached to no other request.
C12_FalseOnlyWithoutCookieAndHeader ==
    \A f \in Frames :
        /\ SplitCase(f.request) =>
              /\ f.draw # <<>>
              /\ (SelectsRc(f.draw) => RcOutcome(f))
              /\ (~SelectsRc(f.draw) => ProductionOutcome(f))
        /\ f.state = "returned" /\ HasCookie(f.result, RC_COOKIE, "false") =>
              SplitCase(f.request)

\* C12 (amended): a request that passes the filter, carries no non-empty
\* loop-guard header, has no release_candidate cookie of value "true" or
\* "false" and a path other than /release-candidate is proxied to the RC host
\* and answered with release_candidate=true when the draw selects the release
\* candidate, and answered with the base response plus release_candidate=false,
\* without a fetch, when the draw selects production; release_candidate=false
\* is attached in no other case.
C12_SplitOutcomes ==
    \A f \in Frames :
        /\ SplitCaseOfCode(f.request) =>
              /\ f.draw # <<>>
              /\ (SelectsRc(f.draw) => RcOutcome(f))
              /\ (~SelectsRc(f.draw) => ProductionOutcome(f))
        /\ f.state = "returned" /\ HasCookie(f.result, RC_COOKIE, "false") =>
              SplitCaseOfCode(f.request) /\ f.draw # <<>> /\ ~SelectsRc(f.draw)

\* a cookie-less eligible request whose draw fell on the weight, the first
\* draw of production's share, was answered with the base response, its own
\* cookies kept, plus release_candidate=false
C12_Witness ==
    \E f \in Frames :
        /\ SplitCase(f.request)
        /\ f.draw = <<productionRcConfig.trafficRcPercent * DrawScale>>
        /\ ProductionOutcome(f)
        /\ f.response.setCookie # <<>>

\* C13: when the RC target answers with a status of 400 or more, nothing is
\* thrown, the one fetch is not repeated and production is not served instead:
\* the response returned is the target's, with its status and body origin, and
\* it is built exactly as it would be for a success status (same cookies
\* appended); the only difference is that the status is logged as an error.
C13_UpstreamErrorsAreResults ==
    \A f \in Frames :
        f.served # <<>> /\ f.served[1].status >= 400 =>
            /\ f.state = "returned"
            /\ ~f.threw
            /\ f.errorLogged
            /\ f.result.kind = "fetched"
            /\ f.result.status = f.served[1].status
            /\ f.result.origin = f.served[1].origin
            /\ f.result.origin = rcDomain
            /\ [f.result EXCEPT !.status = 200] =
                    fetchRCDeployment([f.served[1] EXCEPT !.status = 200],
                                      f.response)
            /\ fetches = 1

\* the RC deployment answered 500 to a proxied request and the client got the
\* 500 from the RC host, with release_candidate=true appended
C13_Witness ==
    /\ Finished
    /\ frames[1].served # <<>>
    /\ frames[1].served[1].status = 500
    /\ frames[1].result.status = 500
    /\ frames[1].result.origin = rcDomain
    /\ frames[1].errorLogged
    /\ HasCookie(frames[1].result, RC_COOKIE, "true")

\* C14: the request a proxying invocation sends upstream has the inbound
\* request's scheme, port, path and query with the RC hostname as its host, the
\* inbound request's method, and as headers the header set middleware()
\* forwards with x-deployment-override set to the RC hostname; and a 3xx
\* answer of the target comes back as the response, status unchanged, after
\* that one fetch.
C14_ProxyFidelity ==
    \A f \in Frames :
        f.upstream # <<>> =>
            LET u == f.upstream[1]
            IN  /\ u.url.protocol = f.request.url.protocol
                /\ u.url.port = f.request.url.port
                /\ u.url.pathname = f.request.url.pathname
                /\ u.url.search = f.request.url.search
                /\ u.url.hostname = rcDomain
                /\ u.method = f.request.method
                /\ u.cookies = f.request.cookies
                /\ u.headers.override = <<rcDomain>>
                /\ [u.headers EXCEPT !.override = <<>>] =
                      [middlewareHeaders(f.request) EXCEPT !.override = <<>>]
                /\ (f.served # <<>> /\ f.served[1].status \in 300..399 =>
                        /\ ~f.threw
                        /\ f.result.kind = "fetched"
                        /\ f.result.status = f.served[1].status
                        /\ fetches = 1)

\* a request with a port and a query string was proxied, the target answered
\* 302 and the 302 is what the client got
C14_Witness ==
    /\ Finished
    /\ frames[1].upstream # <<>>
    /\ frames[1].request.url.port = "8443"
    /\ frames[1].request.url.search # <<>>
    /\ frames[1].upstream[1].url.hostname = rcDomain
    /\ frames[1].upstream[1].url.search = frames[1].request.url.search
    /\ frames[1].served # <<>>
    /\ frames[1].served[1].status = 302
    /\ frames[1].result.status = 302

\* the state the specified order reaches: classify (method, document flag,
\* user agent, loop-guard header present), then the sticky read, then the
\* reserved path, then the split on draw r
SpecifiedState(request, r) ==
    IF \/ request.method # "GET"
       \/ ~isDocumentRequest(request)
       \/ isVercelUserAgent(request.headers)
       \/ CarriesLoopGuard(request)
    THEN "Ineligible"
    ELSE IF request.cookies.release_candidate = <<"false">> THEN "StickyFalseSkip"
    ELSE IF request.cookies.release_candidate = <<"true">> THEN "StickyTrueRC"
    ELSE IF request.url.pathname = "/release-candidate" THEN "ForcedPathRC"
    ELSE IF SelectsRc(<<r>>) THEN "RCFinal"
    ELSE "ProdFinal"

SpecifiedOutput(state) ==
    CASE state \in {"Ineligible", "StickyFalseSkip"} -> "PassThrough"
      [] state = "ProdFinal" -> "PassThroughWithCookie"
      [] state \in {"StickyTrueRC", "ForcedPathRC", "RCFinal"} -> "ProxiedResponse"

\* the terminal output of an invocation, read off what it did: it fetched
\* from the RC host, or returned the base response as it was, or returned it
\* with release_candidate=false attached
OutputOf(f) ==
    IF f.upstream # <<>> THEN "ProxiedResponse"
    ELSE IF f.state = "returned" /\ f.result = f.response THEN "PassThrough"
    ELSE IF ProductionOutcome(f) THEN "PassThroughWithCookie"
    ELSE "none"

\* the invocation's output is the specified order's, for the draw it made
\* or, when it made none, for every draw
SameOutputAsSpecified(f) ==
    /\ \A r \in Draws :
          f.draw \in {<<>>, <<r>>} =>
              OutputOf(f) = SpecifiedOutput(SpecifiedState(f.request, r))
    /\ (f.upstream # <<>> /\ f.state = "returned" /\ ~f.threw
            => f.result.kind = "fetched")

\* C15 as stated: for every method, document flag, user agent, loop-guard
\* header, cookie value, path and draw, the code's order of checks gives the
\* terminal output of the specified order (classify with the loop guard, sticky
\* read, reserved path, split), and that output is one of PassThrough,
\* PassThroughWithCookie and ProxiedResponse.
C15_SameOutputForEveryHeader ==
    \A f \in Frames : SameOutputAsSpecified(f)

\* C15 (amended): for every method, document flag, user agent, cookie value,
\* path and draw, and every loop-guard header that is absent or non-empty, the
\* code's order of checks gives the terminal output of the specified order
\* (classify with the loop guard, sticky read, reserved path, split), and that
\* output is one of PassThrough, PassThroughWithCookie and ProxiedResponse.
C15_DecisionOrderEquivalence ==
    \A f \in Frames :
        (CarriesLoopGuard(f.request) => CarriesNonEmptyLoopGuard(f.request))
            => SameOutputAsSpecified(f)

\* a request for /release-candidate with release_candidate=true: the code
\* leaves at the path check, the specified order at the sticky read, and both
\* end in the proxied response
C15_Witness ==
    \E f \in Frames :
        /\ f.branch = "forcedPath"
        /\ SpecifiedState(f.request, 0) = "StickyTrueRC"
        /\ f.state = "returned"
        /\ f.result.kind = "fetched"
        /\ OutputOf(f) = "ProxiedResponse"

\* the release_candidate cookies a response writes, in order
RcWrites(response) ==
    SelectSeq(response.setCookie, LAMBDA c : c.name = RC_COOKIE)

\* the tab's request is sent in this step
Sends(t) == inflight[t] = <<>> /\ inflight'[t] # <<>>

\* the tab's response is stored by the client in this step
Stores(t) ==
    /\ inflight[t] # <<>>
    /\ inflight[t][1].state = "returned"
    /\ inflight'[t] = <<>>

StatedDocumentRequest(request) ==
    IF request.headers.secFetchDest # <<>>
    THEN request.headers.secFetchDest = <<"document">>
    ELSE /\ request.headers.accept # <<>>
         /\ \E i \in 1..(Len(request.headers.accept[1]) - Len(textHtml) + 1) :
               SubSeq(request.headers.accept[1], i, i + Len(textHtml) - 1) = textHtml

\* C17: among GET requests of an ordinary user agent with no loop-guard header
\* and no release_candidate=false cookie, the ones that are not passed through
\* are exactly the document requests of the stated derivation (Sec-Fetch-Dest
\* equal to "document" when the header is present, whatever Accept says;
\* otherwise Accept present and containing text/html); and every request that
\* is not a document request by that derivation, in particular one with
\* neither header, is passed through.
C17_DocumentRequestDerivation ==
    \A f \in Frames :
        /\ ( /\ f.request.method = "GET"
             /\ ~isVercelUserAgent(f.request.headers)
             /\ ~CarriesLoopGuard(f.request)
             /\ f.request.cookies.release_candidate # <<"false">> )
           => (StatedDocumentRequest(f.request) <=> ~PassThrough(f))
        /\ ~StatedDocumentRequest(f.request) => PassThrough(f)
        /\ f.request.headers.secFetchDest = <<>> /\ f.request.headers.accept = <<>>
           => PassThrough(f)

\* a GET for /release-candidate with Sec-Fetch-Dest: image and an Accept that
\* contains text/html was passed through, and so was one with an empty
\* Sec-Fetch-Dest
C17_Witness ==
    /\ Finished
    /\ frames[1].request.method = "GET"
    /\ frames[1].request.url.pathname = "/release-candidate"
    /\ frames[1].request.headers.secFetchDest \in {<<"image">>, <<"">>}
    /\ frames[1].request.headers.accept = <<acceptHtml>>
    /\ ~isVercelUserAgent(frames[1].request.headers)
    /\ ~CarriesLoopGuard(frames[1].request)
    /\ frames[1].request.cookies.release_candidate = <<>>
    /\ PassThrough(frames[1])

\* the inbound request object is as it arrived, and the forwarded header set
\* differs from the request's in the marker only where the invocation fetched
InboundUntouched(f) ==
    /\ f.inbound = f.request
    /\ (f.upstream # <<>> =>
            /\ f.headers.override = <<rcDomain>>
            /\ f.upstream[1].headers.override = <<rcDomain>>)
    /\ (f.headers.override # f.request.headers.override => f.upstream # <<>>)

\* C18 as stated: the inbound request's headers, cookies and URL are unchanged
\* on every path; the marker is set on the forwarded header set only, and only
\* where the upstream fetch is performed; after an invocation that does not
\* fetch, the forwarded header set has no marker.
C18_NoMarkerAfterPassThrough ==
    \A f \in Frames :
        /\ InboundUntouched(f)
        /\ (f.upstream = <<>> => f.headers.override = <<>>)

\* C18 (amended): the inbound request's headers, cookies and URL are unchanged
\* on every path; the marker is set on the forwarded header set only, and only
\* where the upstream fetch is performed; after an invocation that does not
\* fetch, the forwarded header set has the marker exactly as the inbound
\* request carried it, and none if the request carried none.
C18_InboundRequestUntouched ==
    \A f \in Frames :
        /\ InboundUntouched(f)
        /\ (f.upstream = <<>> =>
                f.headers.override = f.request.headers.override)

\* a request that arrived without the marker was proxied: the forwarded set
\* and the upstream request carry the RC hostname, the request object does not;
\* the target's invocation received the marker and still forwards it
C18_Witness ==
    /\ Len(frames) = 2
    /\ frames[1].request.headers.override = <<>>
    /\ frames[1].inbound.headers.override = <<>>
    /\ frames[1].inbound.url.hostname = productionHost
    /\ frames[1].headers.override = <<rcDomain>>
    /\ frames[1].upstream[1].url.hostname = rcDomain
    /\ frames[2].upstream = <<>>
    /\ frames[2].request.headers.override = <<rcDomain>>
    /\ frames[2].headers.override = <<rcDomain>>

\* the identifier begins with the letters "http"
BeginsWithHttp(id) == Len(id) >= Len(http) /\ SubSeq(id, 1, Len(http)) = http

\* C19 as stated: normalization never raises; an identifier that does not
\* begin with "http" is returned unchanged; one that begins with "http" and
\* is a URL resolves to that URL's hostname; one that begins with "http" and is
\* not a valid URL, a bare hostname such as httpbin.org included, is returned
\* as the raw string; and normalizing the result again returns it unchanged.
C19_NormalizationNeverRaises ==
    /\ fmt.out # <<>> =>
          /\ ~fmt.out[1].threw
          /\ (~BeginsWithHttp(fmt.input) => fmt.out[1].value = fmt.input)
          /\ (BeginsWithHttp(fmt.input) /\ ~URLHostname(fmt.input).threw
                => fmt.out[1].value = URLHostname(fmt.input).value)
          /\ (BeginsWithHttp(fmt.input) /\ URLHostname(fmt.input).threw
                => fmt.out[1].value = fmt.input)
    /\ fmt.again # <<>> =>
          /\ ~fmt.again[1].threw
          /\ fmt.again[1].value = fmt.out[1].value

\* C20: a handler that received a request without x-initial-route has issued
\* exactly one fetch, to the other route, carrying x-initial-route with its own
\* name; a handler that received the header, whatever its value, has issued
\* none and has answered; so the chain of handlers is never longer than two;
\* and, every fetch completing, every request is answered.
C20_RoutesTerminate ==
    /\ [](\A k \in 1..Len(calls) :
            /\ (calls[k].received.xInitialRoute = <<>> =>
                    /\ calls[k].fetched = 1
                    /\ Len(calls[k].fetch) = 1
                    /\ calls[k].fetch[1].route = OtherRoute(calls[k].route)
                    /\ calls[k].fetch[1].headers.xInitialRoute = <<calls[k].route>>)
            /\ (calls[k].received.xInitialRoute # <<>> =>
                    /\ calls[k].fetched = 0
                    /\ calls[k].fetch = <<>>
                    /\ calls[k].state = "returned")
            /\ (k > 1 =>
                    /\ calls[k].route = OtherRoute(calls[k - 1].route)
                    /\ calls[k].received = calls[k - 1].fetch[1].headers
                    /\ calls[k].fetched = 0))
    /\ [](Len(calls) <= 2)
    /\ ((calls # <<>>) ~> (calls = <<>>))

\* /api/a was requested without the header: /api/b has received the nested
\* fetch with x-initial-route: a and answered it without fetching
C20_Witness ==
    /\ Len(calls) = 2
    /\ calls[1].route = "a"
    /\ calls[1].received.xInitialRoute = <<>>
    /\ calls[1].state = "fetching"
    /\ calls[2].route = "b"
    /\ calls[2].received.xInitialRoute = <<"a">>
    /\ calls[2].state = "returned"
    /\ calls[2].fetched = 0

====
